---- MODULE Spec2Model ----
(***************************************************************************)
(* Model of the receipt history persistence layer                          *)
(* (src/services/historyService.ts, revision 1.3, lines 135-346) as it is  *)
(* driven by the handlers of src/App.tsx.                                  *)
(*                                                                         *)
(* localStorage is a function from keys to stored strings.  A stored       *)
(* string is represented by what JSON.parse makes of it: absent (getItem   *)
(* returns null), "bad" (not parseable), "object" (parses to a non-array   *)
(* object without a data member, such as {}), or "array" with its entries. *)
(* A record keeps the members the service reads: id, userId, timestamp,    *)
(* and content, which stands for all remaining members (date, totals,      *)
(* items).  An absent id or userId is undefined; an absent timestamp is 0, *)
(* which the service cannot tell from a missing one (timestamp || 0).      *)
(***************************************************************************)
EXTENDS Integers, Sequences, FiniteSets, TLC

(* ---------------------------- bounds ---------------------------------- *)
MaxClock == 2        \* Date.now() ranges over 1..MaxClock
MaxOps == 2          \* user actions (capture, delete, restore, login, logout)
MaxX == 2            \* length of the collections the merges are applied to
MaxRaceOps == 3      \* user actions in the runs that start from empty storage
MaxRetries == 3      \* the retries retryWithBackoff is called with: 0..MaxRetries

(* --------------------------- constants -------------------------------- *)
undefined == "undefined"
CURRENT_LOCAL == "japan_receipt_history_v1"
LEGACY_LOCAL == <<"japan_receipt_history", "receipt_history">>
Users == {"u1", "u2"}
CloudKey(u) == "japan_receipt_cloud_" \o u
Keys == {CURRENT_LOCAL} \cup {CloudKey(u) : u \in Users}
          \cup {LEGACY_LOCAL[i] : i \in 1..Len(LEGACY_LOCAL)}

(* --------------------------- stored values ---------------------------- *)
Absent == [kind |-> "absent", items |-> <<>>]
Bad == [kind |-> "bad", items |-> <<>>]
Obj == [kind |-> "object", items |-> <<>>]
Arr(s) == [kind |-> "array", items |-> s]

Rec(i, u, t, c) == [id |-> i, userId |-> u, timestamp |-> t, content |-> c]
NullEntry == Rec(undefined, undefined, 0, "null")
IsNull(e) == e.content = "null"

\* JSON.stringify of a list of records, as the stored string
Stringify(list) == Arr(list)

(* ------------------------ Array.prototype.sort ------------------------ *)
\* stable insertion of r into a list already sorted by timestamp descending
RECURSIVE InsertDesc(_, _)
InsertDesc(r, s) ==
  IF s = <<>> THEN <<r>>
  ELSE IF Head(s).timestamp >= r.timestamp
       THEN <<Head(s)>> \o InsertDesc(r, Tail(s))
       ELSE <<r>> \o s

\* list.sort((a, b) => (b.timestamp || 0) - (a.timestamp || 0)), stable
RECURSIVE SortDesc(_)
SortDesc(s) ==
  IF s = <<>> THEN <<>>
  ELSE LET n == Len(s) IN InsertDesc(s[n], SortDesc(SubSeq(s, 1, n - 1)))

(* ------------------------------ Map ----------------------------------- *)
\* a Map<string, record> as the sequence of its values in insertion order;
\* every value is stored under its own id
MapHas(m, i) == \E k \in 1..Len(m) : m[k].id = i

MapSet(m, r) ==
  IF MapHas(m, r.id)
  THEN [k \in 1..Len(m) |-> IF m[k].id = r.id THEN r ELSE m[k]]
  ELSE Append(m, r)

\* the stamping that also resets the timestamp
StampAndTouch(r, u) == [r EXCEPT !.userId = u, !.timestamp = 0]

Stamp(r, u) == [r EXCEPT !.userId = u]

IdsOf(s) == {s[k].id : k \in 1..Len(s)} \ {undefined}

(* --------------------------- localStorage ------------------------------ *)
SetItem(st, key, v) == [st EXCEPT ![key] = v]
RemoveItem(st, key) == [st EXCEPT ![key] = Absent]

\* json ? JSON.parse(json) : [], then a non-array counts as []; a parse
\* error is caught and counts as [] too (getHistory, lines 179-186)
ParsedOrEmpty(v) == IF v.kind = "array" THEN v.items ELSE <<>>

\* the namespace an operation works on (lines 176, 241, 261, 332)
StorageKey(u) == IF u = undefined THEN CURRENT_LOCAL ELSE CloudKey(u)

(* A service call returns [store, stage, threw, ret, n]: the storage it    *)
(* leaves, where it stopped ("done", or the step that threw: "parse" of    *)
(* the payload, the "migrate" write of getHistory, the "merge" loop, the   *)
(* final "write"), the list it returns, and how many setItem calls the     *)
(* handler has made so far.  failAt is the number of the setItem call of   *)
(* the handler that the store rejects (quota exceeded); 0 rejects none.    *)
Result(st, stage, r, n) ==
  [store |-> st, stage |-> stage, threw |-> (stage # "done"), ret |-> r, n |-> n]

\* the loop over STORAGE_KEYS.LEGACY_LOCAL (lines 190-201), from key i on:
\* an unparseable legacy value is skipped and kept, any parseable one is
\* removed, and only an array is appended
RECURSIVE MigrateFrom(_, _, _)
MigrateFrom(st, history, i) ==
  IF i > Len(LEGACY_LOCAL) THEN [store |-> st, history |-> history]
  ELSE LET v == st[LEGACY_LOCAL[i]] IN
       IF v.kind \in {"absent", "bad"} THEN MigrateFrom(st, history, i + 1)
       ELSE MigrateFrom(RemoveItem(st, LEGACY_LOCAL[i]),
                        IF v.kind = "array" THEN history \o v.items
                                            ELSE history,
                        i + 1)

\* getHistory migrating whenever the anonymous namespace holds no records,
\* whoever is the current identity
GetHistoryMigratesAlways(st, u, n, failAt) ==
  LET history == ParsedOrEmpty(st[StorageKey(u)]) IN
  IF ParsedOrEmpty(st[CURRENT_LOCAL]) = <<>>
  THEN LET m == MigrateFrom(st, <<>>, 1) IN
       IF m.history # <<>>
       THEN IF n + 1 = failAt
            THEN Result(m.store, "migrate", <<>>, n + 1)
            ELSE Result(SetItem(m.store, CURRENT_LOCAL, Stringify(m.history)),
                        "done",
                        SortDesc(IF u = undefined THEN m.history ELSE history),
                        n + 1)
       ELSE Result(m.store, "done", SortDesc(history), n)
  ELSE Result(st, "done", SortDesc(history), n)

\* getHistory returning the collection in its stored order
GetHistoryUnsorted(st, u, n, failAt) ==
  LET history == ParsedOrEmpty(st[StorageKey(u)]) IN
  IF u = undefined /\ history = <<>>
  THEN LET m == MigrateFrom(st, history, 1) IN
       IF m.history # <<>>
       THEN IF n + 1 = failAt
            THEN Result(m.store, "migrate", <<>>, n + 1)
            ELSE Result(SetItem(m.store, CURRENT_LOCAL, Stringify(m.history)),
                        "done", m.history, n + 1)
       ELSE Result(m.store, "done", <<>>, n)
  ELSE Result(st, "done", history, n)

\* getHistory (lines 174-208) under the ambient identity u
GetHistory(st, u, n, failAt) ==
  LET history == ParsedOrEmpty(st[StorageKey(u)]) IN
  IF u = undefined /\ history = <<>>
  THEN LET m == MigrateFrom(st, history, 1) IN
       IF m.history # <<>>
       THEN IF n + 1 = failAt
            THEN Result(m.store, "migrate", <<>>, n + 1)
            ELSE Result(SetItem(m.store, CURRENT_LOCAL, Stringify(m.history)),
                        "done", SortDesc(m.history), n + 1)
       ELSE Result(m.store, "done", <<>>, n)
  ELSE Result(st, "done", SortDesc(history), n)

(* ----------------------------- merges ---------------------------------- *)
\* cloudData.forEach(item => { if (item.id) mergedMap.set(item.id, item) })
RECURSIVE SeedMap(_, _)
SeedMap(m, data) ==
  IF data = <<>> THEN m
  ELSE SeedMap(IF Head(data).id # undefined THEN MapSet(m, Head(data)) ELSE m,
               Tail(data))

\* localData.forEach(item => { if (item.id && !mergedMap.has(item.id))
\*                               mergedMap.set(item.id, {...item, userId}) })
RECURSIVE AddMissing(_, _, _)
AddMissing(m, data, userId) ==
  IF data = <<>> THEN m
  ELSE AddMissing(IF Head(data).id # undefined /\ ~MapHas(m, Head(data).id)
                  THEN MapSet(m, Stamp(Head(data), userId)) ELSE m,
                  Tail(data), userId)

\* [...].forEach(item => { if (item.id)
\*                     mergedMap.set(item.id, {...item, userId: user?.id}) })
RECURSIVE SetAll(_, _, _)
SetAll(m, data, u) ==
  IF data = <<>> THEN m
  ELSE SetAll(IF Head(data).id # undefined THEN MapSet(m, Stamp(Head(data), u))
                                            ELSE m,
              Tail(data), u)

\* the merge with the secondary collection winning on an id collision
SyncMergeLocalWins(cloudData, localData, userId) ==
  SortDesc(SetAll(<<>>, cloudData \o localData, userId))

\* the merge of the sync that adds the missing records as they are
SyncMergeUnstamped(cloudData, localData, userId) ==
  SortDesc(AddMissing(SeedMap(<<>>, cloudData), localData, undefined))

\* the merge of syncLocalToCloud (lines 225-229)
SyncMerge(cloudData, localData, userId) ==
  SortDesc(AddMissing(SeedMap(<<>>, cloudData), localData, userId))

\* the import merge with the namespace's own record winning on a collision
ImportMergePrimaryWins(currentHistory, dataToImport, u) ==
  SortDesc(AddMissing(SetAll(<<>>, currentHistory, u), dataToImport, u))

\* the import merge that replaces the namespace by the backup
ImportMergeReplace(currentHistory, dataToImport, u) ==
  SortDesc(SetAll(<<>>, dataToImport, u))

\* the merge of importHistoryData (lines 335-340)
ImportMerge(currentHistory, dataToImport, u) ==
  SortDesc(SetAll(<<>>, currentHistory \o dataToImport, u))

HasNull(s) == \E k \in 1..Len(s) : IsNull(s[k])

(* -------------------------- the service -------------------------------- *)
\* the tail of the sync clearing the source before writing the destination
SyncWriteClearFirst(st, cloudKey, mergedList, n, failAt) ==
  IF n + 1 = failAt
  THEN Result(RemoveItem(st, CURRENT_LOCAL), "write", <<>>, n + 1)
  ELSE Result(SetItem(RemoveItem(st, CURRENT_LOCAL), cloudKey,
                      Stringify(mergedList)),
              "done", mergedList, n + 1)

\* the tail of the sync without the clearing of the source
SyncWriteKeepLocal(st, cloudKey, mergedList, n, failAt) ==
  IF n + 1 = failAt
  THEN Result(st, "write", <<>>, n + 1)
  ELSE Result(SetItem(st, cloudKey, Stringify(mergedList)),
              "done", mergedList, n + 1)

\* the write-then-clear tail of syncLocalToCloud (lines 230-233)
SyncWrite(st, cloudKey, mergedList, n, failAt) ==
  IF n + 1 = failAt
  THEN Result(st, "write", <<>>, n + 1)
  ELSE Result(RemoveItem(SetItem(st, cloudKey, Stringify(mergedList)),
                         CURRENT_LOCAL),
              "done", mergedList, n + 1)

\* syncLocalToCloud(userId) after its wait (lines 217-233), run while the
\* ambient identity is u
SyncLocalToCloud(st, u, userId, failAt) ==
  LET g == GetHistory(st, u, 0, failAt)
      cloudKey == CloudKey(userId)
      cloudData == ParsedOrEmpty(g.store[cloudKey])
  IN IF g.threw THEN g
     ELSE IF g.store[cloudKey].kind = "object" \/ HasNull(cloudData)
               \/ HasNull(g.ret)
     THEN Result(g.store, "merge", <<>>, g.n)
     ELSE SyncWrite(g.store, cloudKey, SyncMerge(cloudData, g.ret, userId),
                    g.n, failAt)

\* `rec_${Date.now()}_${Math.random().toString(36).substr(2, 4)}`
GenId(now, rand) == "rec_" \o ToString(now) \o "_" \o rand

\* the record saveReceiptToHistory builds (lines 244-249)
NewRecord(data, u, now, rand) ==
  Rec(IF data.id # undefined THEN data.id ELSE GenId(now, rand),
      u, now, data.content)

\* the save that always writes the anonymous namespace
SaveWritesLocal(st, u, data, now, rand, failAt) ==
  LET g == GetHistory(st, u, 0, failAt)
      newRecord == NewRecord(data, u, now, rand)
      updatedHistory == <<newRecord>> \o g.ret
  IN IF g.threw THEN g
     ELSE IF g.n + 1 = failAt THEN Result(g.store, "write", <<>>, g.n + 1)
     ELSE Result(SetItem(g.store, CURRENT_LOCAL, Stringify(updatedHistory)),
                 "done", <<newRecord>>, g.n + 1)

\* the save that writes the new record alone
SaveReplacesHistory(st, u, data, now, rand, failAt) ==
  LET g == GetHistory(st, u, 0, failAt)
      newRecord == NewRecord(data, u, now, rand)
  IN IF g.threw THEN g
     ELSE IF g.n + 1 = failAt THEN Result(g.store, "write", <<>>, g.n + 1)
     ELSE Result(SetItem(g.store, StorageKey(u), Stringify(<<newRecord>>)),
                 "done", <<newRecord>>, g.n + 1)

\* the save that catches a rejected write and returns the record all the same
SaveSwallowsRejection(st, u, data, now, rand, failAt) ==
  LET g == GetHistory(st, u, 0, failAt)
      newRecord == NewRecord(data, u, now, rand)
      updatedHistory == <<newRecord>> \o g.ret
  IN IF g.threw THEN g
     ELSE IF g.n + 1 = failAt THEN Result(g.store, "done", <<newRecord>>, g.n + 1)
     ELSE Result(SetItem(g.store, StorageKey(u), Stringify(updatedHistory)),
                 "done", <<newRecord>>, g.n + 1)

\* saveReceiptToHistory (lines 239-254); ret holds the new record
SaveReceiptToHistory(st, u, data, now, rand, failAt) ==
  LET g == GetHistory(st, u, 0, failAt)
      newRecord == NewRecord(data, u, now, rand)
      updatedHistory == <<newRecord>> \o g.ret
  IN IF g.threw THEN g
     ELSE IF g.n + 1 = failAt THEN Result(g.store, "write", <<>>, g.n + 1)
     ELSE Result(SetItem(g.store, StorageKey(u), Stringify(updatedHistory)),
                 "done", <<newRecord>>, g.n + 1)

\* history.filter(item => item.id !== id)
RECURSIVE FilterOut(_, _)
FilterOut(history, id) ==
  IF history = <<>> THEN <<>>
  ELSE IF Head(history).id # id
       THEN <<Head(history)>> \o FilterOut(Tail(history), id)
       ELSE FilterOut(Tail(history), id)

\* the delete that treats an id no record carries as an error
DeleteRejectsMissing(st, u, id, failAt) ==
  LET g == GetHistory(st, u, 0, failAt)
      updated == FilterOut(g.ret, id)
  IN IF g.threw THEN g
     ELSE IF id \notin IdsOf(g.ret) THEN Result(g.store, "merge", <<>>, g.n)
     ELSE IF g.n + 1 = failAt THEN Result(g.store, "write", <<>>, g.n + 1)
     ELSE Result(SetItem(g.store, StorageKey(u), Stringify(updated)),
                 "done", updated, g.n + 1)

\* deleteFromHistory (lines 259-266)
DeleteFromHistory(st, u, id, failAt) ==
  LET g == GetHistory(st, u, 0, failAt)
      updated == FilterOut(g.ret, id)
  IN IF g.threw THEN g
     ELSE IF g.n + 1 = failAt THEN Result(g.store, "write", <<>>, g.n + 1)
     ELSE Result(SetItem(g.store, StorageKey(u), Stringify(updated)),
                 "done", updated, g.n + 1)

(* A backup payload is the string handed to importHistoryData, by what     *)
(* JSON.parse makes of it: "bad" does not parse, "object" is {} (no data   *)
(* member), "array" is a bare array and "wrapped" is {data: [...]}.        *)
Payload(k, items) == [kind |-> k, items |-> items]

\* Array.isArray(parsed) ? parsed : (parsed.data || [])   (line 330)
DataToImport(payload) ==
  IF payload.kind \in {"array", "wrapped"} THEN payload.items ELSE <<>>

\* importHistoryData (lines 327-346): every throw inside the try block is
\* rethrown as the format error
ImportHistoryData(st, u, payload, failAt) ==
  IF payload.kind = "bad" THEN Result(st, "parse", <<>>, 0)
  ELSE LET g == GetHistory(st, u, 0, failAt)
           dataToImport == DataToImport(payload)
           mergedList == ImportMerge(g.ret, dataToImport, u)
       IN IF g.threw THEN g
          ELSE IF HasNull(g.ret \o dataToImport)
          THEN Result(g.store, "merge", <<>>, g.n)
          ELSE IF g.n + 1 = failAt THEN Result(g.store, "write", <<>>, g.n + 1)
          ELSE Result(SetItem(g.store, StorageKey(u), Stringify(mergedList)),
                      "done", mergedList, g.n + 1)

\* exportHistoryData (lines 316-322) under the ambient identity u: the
\* string is {version, data: getHistory(), exportDate}, which parses to an
\* object whose data member is the list
ExportHistoryData(st, u, failAt) ==
  LET g == GetHistory(st, u, 0, failAt) IN
  [store |-> g.store, threw |-> g.threw, payload |-> Payload("wrapped", g.ret)]

(* ----------------------------- inputs ---------------------------------- *)
Contents == {"c1", "c2"}
RandSuffixes == {"x", "y"}
\* what the extraction hands to saveReceiptToHistory: parsed model output,
\* which may or may not carry an id
Candidates == {[id |-> undefined, content |-> "c1"], [id |-> "A", content |-> "c2"]}

\* backup files
Payloads ==
  { Payload("bad", <<>>),
    Payload("object", <<>>),
    Payload("wrapped", <<Rec("A", undefined, 2, "c2")>>),
    Payload("wrapped", <<Rec(undefined, undefined, 1, "c1")>>),
    Payload("wrapped", <<Rec("B", undefined, 2, "c2"), NullEntry>>),
    Payload("array", <<Rec("B", "u2", 1, "c1"), Rec("A", "u1", 1, "c2")>>) }
NoPayload == Payload("none", <<>>)

\* storage left behind by earlier sessions and earlier revisions
StoreOf(l, c, g1, g2) ==
  [k \in Keys |->
     IF k = CURRENT_LOCAL THEN l
     ELSE IF k = CloudKey("u1") THEN c
     ELSE IF k = LEGACY_LOCAL[1] THEN g1
     ELSE IF k = LEGACY_LOCAL[2] THEN g2
     ELSE Absent]

LocalA == Arr(<<Rec("A", undefined, 1, "c1")>>)
CloudA == Arr(<<Rec("A", "u1", 1, "c2")>>)
LegacyB1 == Arr(<<Rec("B", undefined, 1, "c1")>>)
LegacyB2 == Arr(<<Rec("B", undefined, 1, "c2")>>)

InitStores ==
  { StoreOf(Absent, Absent, Absent, Absent),
    StoreOf(LocalA, Absent, Absent, Absent),
    StoreOf(LocalA, CloudA, Absent, Absent),
    StoreOf(LocalA, Absent, LegacyB1, LegacyB2),
    StoreOf(Absent, CloudA, LegacyB1, Absent),
    StoreOf(Bad, Absent, Obj, LegacyB2) }

(* ------------------------------ state ---------------------------------- *)
VARIABLES
  store,     \* localStorage: key -> stored value
  user,      \* what getCurrentUser() returns: a user id or undefined
  mounted,   \* the App component has run its mount effect
  pending,   \* syncLocalToCloud calls inside their 1500 ms wait, oldest first
  cont,      \* the continuation due right after a settled sync
  clock,     \* Date.now() as last read; it never runs backwards
  last,      \* the service call made last: its arguments, pre-state, outcome
  ops,       \* user actions taken so far
  merge      \* a merge applied on its own: its inputs X and u, and its result

vars == <<store, user, mounted, pending, cont, clock, last, ops, merge>>

NoMerge == [X |-> <<>>, u |-> undefined, op |-> "none", res |-> <<>>]

Call(op, pre, who, arg, payload, r) ==
  [op |-> op, pre |-> pre, who |-> who, arg |-> arg, payload |-> payload,
   stage |-> r.stage, threw |-> r.threw, ret |-> r.ret]

Init ==
  /\ store \in InitStores
  /\ user \in {undefined, "u1"}
  /\ mounted = FALSE
  /\ pending = <<>>
  /\ cont = "none"
  /\ clock = 1
  /\ last = Call("none", store, user, "", NoPayload, Result(store, "done", <<>>, 0))
  /\ ops = 0
  /\ merge = NoMerge

\* authService: the identity of the session, and how login and logout set it
getCurrentUser == user
login(u) == user' = u
logout == user' = undefined

Idle == mounted /\ cont = "none"

\* a user action is taken
UserAction == Idle /\ ops < MaxOps /\ ops' = ops + 1

\* initializeApp (App.tsx lines 25-36) for the identity u
InitializeApp(u) ==
  IF u # undefined
  THEN /\ pending' = Append(pending, [userId |-> u, origin |-> "init"])
       /\ UNCHANGED <<store, last>>
  ELSE \E failAt \in 0..1 :
         LET g == GetHistory(store, u, 0, failAt) IN
         /\ store' = g.store
         /\ last' = Call("getHistory", store, u, "", NoPayload, g)
         /\ UNCHANGED pending

\* the mount effect (App.tsx lines 38-40)
Mount ==
  /\ ~mounted
  /\ mounted' = TRUE
  /\ InitializeApp(getCurrentUser)
  /\ UNCHANGED <<user, cont, clock, ops, merge>>

\* AuthView reports a login: the session now belongs to u, and
\* onLoginSuccess (App.tsx lines 140-146) starts the sync
LoginStep(u) ==
  /\ getCurrentUser = undefined
  /\ login(u)
  /\ pending' = Append(pending, [userId |-> u, origin |-> "login"])
  /\ UNCHANGED <<store, mounted, cont, clock, last, merge>>

Login(u) == UserAction /\ LoginStep(u)

\* handleLogout (App.tsx lines 77-83): logout(), then initializeApp()
LogoutStep ==
  /\ getCurrentUser # undefined
  /\ logout
  /\ InitializeApp(undefined)
  /\ UNCHANGED <<mounted, cont, clock, merge>>

Logout == UserAction /\ LogoutStep

\* the sync of the earlier revision (lines 80-101), whose body runs inside
\* the timer callback: a throw there settles nothing, the call stays
\* outstanding for good
SyncBodyHangsOnThrow ==
  /\ Idle /\ pending # <<>>
  /\ \E failAt \in 0..2 :
       LET p == Head(pending)
           r == SyncLocalToCloud(store, getCurrentUser, p.userId, failAt) IN
       /\ store' = r.store
       /\ cont' = IF r.threw THEN "hung" ELSE p.origin
       /\ last' = Call("sync", store, getCurrentUser, p.userId, NoPayload, r)
       /\ pending' = IF r.threw THEN pending ELSE Tail(pending)
  /\ UNCHANGED <<user, mounted, clock, ops, merge>>

\* the timer of the oldest outstanding sync fires (line 215) and the rest
\* of syncLocalToCloud runs
SyncBody ==
  /\ Idle /\ pending # <<>>
  /\ \E failAt \in 0..2 :
       LET p == Head(pending)
           r == SyncLocalToCloud(store, getCurrentUser, p.userId, failAt) IN
       /\ store' = r.store
       /\ cont' = IF p.origin = "init" THEN "init"
                  ELSE IF r.threw THEN "none" ELSE "login"
       /\ last' = Call("sync", store, getCurrentUser, p.userId, NoPayload, r)
  /\ pending' = Tail(pending)
  /\ UNCHANGED <<user, mounted, clock, ops, merge>>

\* what the caller does once the sync has settled: setHistoryList(getHistory())
\* (App.tsx lines 33-35 and 142-145)
SyncThen ==
  /\ mounted /\ cont # "none"
  /\ \E failAt \in 0..1 :
       LET g == GetHistory(store, getCurrentUser, 0, failAt) IN
       /\ store' = g.store
       /\ last' = Call("getHistory", store, getCurrentUser, "", NoPayload, g)
  /\ cont' = "none"
  /\ UNCHANGED <<user, mounted, pending, clock, ops, merge>>

\* handleCapture once the extraction has answered (App.tsx lines 64-65);
\* the clock may have advanced since it was last read, or not
CaptureStep ==
  /\ \E data \in Candidates, rand \in RandSuffixes, failAt \in 0..2,
        now \in clock..MaxClock :
       LET r == SaveReceiptToHistory(store, getCurrentUser, data, now, rand, failAt) IN
       /\ store' = IF r.threw THEN r.store
                   ELSE GetHistory(r.store, getCurrentUser, r.n, failAt).store
       /\ last' = Call("save", store, getCurrentUser, "",
                       Payload("candidate", <<Rec(data.id, undefined, 0, data.content)>>), r)
       /\ clock' = now
  /\ UNCHANGED <<user, mounted, pending, cont, merge>>

HandleCapture == UserAction /\ CaptureStep

StoredIds == UNION {IdsOf(ParsedOrEmpty(store[k])) : k \in Keys}

\* handleDelete (HistoryList.tsx lines 16-22) and onDelete (App.tsx line 223)
DeleteStep ==
  /\ \E id \in StoredIds \cup {"nonexistent"}, failAt \in 0..2 :
       LET r == DeleteFromHistory(store, getCurrentUser, id, failAt) IN
       /\ store' = r.store
       /\ last' = Call("delete", store, getCurrentUser, id, NoPayload, r)
  /\ UNCHANGED <<user, mounted, pending, cont, clock, merge>>

HandleDelete == UserAction /\ DeleteStep

\* the restore handler of StatsView (part_004 lines 361-374)
HandleImport ==
  /\ UserAction
  /\ \E payload \in Payloads, failAt \in 0..2 :
       LET r == ImportHistoryData(store, getCurrentUser, payload, failAt) IN
       /\ store' = r.store
       /\ last' = Call("import", store, getCurrentUser, "", payload, r)
  /\ UNCHANGED <<user, mounted, pending, cont, clock, merge>>

Next ==
  \/ Mount
  \/ \E u \in Users : Login(u)
  \/ Logout
  \/ SyncBody
  \/ SyncThen
  \/ HandleCapture
  \/ HandleDelete
  \/ HandleImport

Spec == Init /\ [][Next]_vars

(* ------- sessions and captures with timers that fire -------------------- *)
\* the steps that set a sync going or change what it reads while it waits:
\* mounting, sessions, the sync itself and captures, from every initial
\* storage of Init
LiveNext ==
  \/ Mount
  \/ \E u \in Users : Login(u)
  \/ Logout
  \/ SyncBody
  \/ SyncThen
  \/ HandleCapture

\* a timer that has been set fires (setTimeout, line 215), and a continuation
\* that is due runs. The timer's fairness is WF_vars(SyncBody) written out:
\* SyncBody can run exactly when the app is idle with a sync outstanding,
\* and every run of it changes the state
LiveSpec ==
  /\ Init /\ [][LiveNext]_vars
  /\ WF_vars(SyncThen)
  /\ ([]<>(~(Idle /\ pending # <<>>)) \/ []<><<SyncBody>>_vars)

(* ------- captures, deletes and sessions on storage that starts empty ---- *)
RaceInit ==
  /\ store = [k \in Keys |-> Absent]
  /\ user \in {undefined, "u1"}
  /\ mounted = FALSE
  /\ pending = <<>>
  /\ cont = "none"
  /\ clock = 1
  /\ last = Call("none", store, user, "", NoPayload, Result(store, "done", <<>>, 0))
  /\ ops = 0
  /\ merge = NoMerge

RaceAction == Idle /\ ops < MaxRaceOps /\ ops' = ops + 1

RaceLogin(u) == RaceAction /\ LoginStep(u)
RaceLogout == RaceAction /\ LogoutStep
RaceCapture == RaceAction /\ CaptureStep
RaceDelete == RaceAction /\ DeleteStep

RaceNext ==
  \/ Mount
  \/ \E u \in Users : RaceLogin(u)
  \/ RaceLogout
  \/ SyncBody
  \/ SyncThen
  \/ RaceCapture
  \/ RaceDelete

RaceSpec == RaceInit /\ [][RaceNext]_vars

(* ------------------- the merges applied on their own ------------------- *)
MergeRecords ==
  { Rec("A", undefined, 1, "c1"), Rec("A", "u1", 2, "c2"),
    Rec("B", "u1", 1, "c1"), Rec("B", "u2", 2, "c2"),
    Rec(undefined, undefined, 1, "c1") }
Collections == UNION {[1..n -> MergeRecords] : n \in 0..MaxX}

MergeInit ==
  /\ store = [k \in Keys |-> Absent]
  /\ user = undefined
  /\ mounted = FALSE
  /\ pending = <<>>
  /\ cont = "none"
  /\ clock = 1
  /\ last = Call("none", store, user, "", NoPayload, Result(store, "done", <<>>, 0))
  /\ ops = 0
  /\ merge \in [X : Collections, u : Users \cup {undefined}, op : {"none"}, res : {<<>>}]

AppUnchanged == UNCHANGED <<store, user, mounted, pending, cont, clock, last, ops>>

\* the merge of syncLocalToCloud with primary = secondary = X
ApplySyncMerge ==
  /\ merge.op = "none" /\ merge.u # undefined
  /\ merge' = [merge EXCEPT !.op = "sync", !.res = SyncMerge(merge.X, merge.X, merge.u)]
  /\ AppUnchanged

\* the merge of importHistoryData with primary = secondary = X
ApplyImportMerge ==
  /\ merge.op = "none"
  /\ merge' = [merge EXCEPT !.op = "import", !.res = ImportMerge(merge.X, merge.X, merge.u)]
  /\ AppUnchanged

MergeNext == ApplySyncMerge \/ ApplyImportMerge

MergeSpec == MergeInit /\ [][MergeNext]_vars

(* ------------- the two merges applied to the same inputs --------------- *)
\* a primary collection P (what the destination namespace holds), a
\* secondary collection S (what is brought in) and the identity u
PairInit ==
  /\ store = [k \in Keys |-> Absent]
  /\ user = undefined
  /\ mounted = FALSE
  /\ pending = <<>>
  /\ cont = "none"
  /\ clock = 1
  /\ last = Call("none", store, user, "", NoPayload, Result(store, "done", <<>>, 0))
  /\ ops = 0
  /\ merge \in [P : Collections, S : Collections, u : Users,
                synced : {FALSE}, imported : {FALSE},
                bySync : {<<>>}, byImport : {<<>>}]

\* the merge of syncLocalToCloud with cloudData = P and localData = S
PairSyncMerge ==
  /\ ~merge.synced
  /\ merge' = [merge EXCEPT !.synced = TRUE,
                            !.bySync = SyncMerge(merge.P, merge.S, merge.u)]
  /\ AppUnchanged

\* the merge of importHistoryData with currentHistory = P and dataToImport = S
PairImportMerge ==
  /\ ~merge.imported
  /\ merge' = [merge EXCEPT !.imported = TRUE,
                            !.byImport = ImportMerge(merge.P, merge.S, merge.u)]
  /\ AppUnchanged

PairNext == PairSyncMerge \/ PairImportMerge

PairSpec == PairInit /\ [][PairNext]_vars

(* --------------------------- retryWithBackoff --------------------------- *)
\* what operation() settles with: a result, or an error of which the helper
\* reads status, code and whether the message contains '429' (0: undefined)
Success(v) ==
  [kind |-> "ok", value |-> v, status |-> 0, code |-> 0, has429 |-> FALSE]
Failure(s, c, m) ==
  [kind |-> "error", value |-> "", status |-> s, code |-> c, has429 |-> m]

Outcomes ==
  { Success("r1"),
    Failure(429, 0, FALSE), Failure(0, 429, FALSE), Failure(0, 0, TRUE),
    Failure(503, 0, FALSE), Failure(0, 503, FALSE),
    Failure(500, 0, FALSE), Failure(500, 0, TRUE) }

\* the predicate of the earlier copy (src/unnamed/part_005 lines 31-33):
\* status = error.status || error.code, retried on 429, 503 and 500
IsRetryableByStatus(e) ==
  LET status == IF e.status # 0 THEN e.status ELSE e.code IN
  status \in {429, 503, 500}

\* isRetryable (geminiService.ts lines 450-454)
IsRetryable(e) ==
  \/ e.status = 429
  \/ e.code = 429
  \/ e.has429
  \/ e.status = 503

\* a call retryWithBackoff(operation, retries, delay) about to start
RetryStart(retries, delay) ==
  [retries |-> retries, delay |-> delay, given |-> retries, first |-> delay,
   at |-> "call", log |-> <<>>, waits |-> <<>>, out |-> Success("")]

RetryInit ==
  /\ store = [k \in Keys |-> Absent]
  /\ user = undefined
  /\ mounted = FALSE
  /\ pending = <<>>
  /\ cont = "none"
  /\ clock = 1
  /\ last = Call("none", store, user, "", NoPayload, Result(store, "done", <<>>, 0))
  /\ ops = 0
  /\ merge \in {RetryStart(r, d) : r \in 0..MaxRetries, d \in {1000, 2000}}

\* operation() settles (line 447): its result is returned; a retryable error
\* with retries left sets the timer (lines 456-458); any other is rethrown
\* (line 461)
RetryCall ==
  /\ merge.at = "call"
  /\ \E o \in Outcomes :
       merge' =
         IF o.kind = "ok"
         THEN [merge EXCEPT !.log = Append(@, o), !.at = "returned", !.out = o]
         ELSE IF merge.retries > 0 /\ IsRetryable(o)
         THEN [merge EXCEPT !.log = Append(@, o), !.at = "wait",
                            !.waits = Append(@, merge.delay)]
         ELSE [merge EXCEPT !.log = Append(@, o), !.at = "threw", !.out = o]
  /\ AppUnchanged

\* the timer fires and the helper calls itself with retries - 1 and
\* delay * 2 (line 459)
RetryWait ==
  /\ merge.at = "wait"
  /\ merge' = [merge EXCEPT !.retries = @ - 1, !.delay = @ * 2, !.at = "call"]
  /\ AppUnchanged

RetryNext == RetryCall \/ RetryWait

RetrySpec == RetryInit /\ [][RetryNext]_vars

(* ====================== properties of the service ====================== *)
Items(st, k) == ParsedOrEmpty(st[k])
Range(sq) == {sq[k] : k \in 1..Len(sq)}
WithId(sq, i) == {r \in Range(sq) : r.id = i}
Distinct(sq) == \A j, k \in 1..Len(sq) :
                  (j # k /\ sq[j].id # undefined) => sq[j].id # sq[k].id
\* the field values a record carries besides its owner stamp
Fields(r) == [id |-> r.id, timestamp |-> r.timestamp, content |-> r.content]
LegacyItems(st) == Items(st, LEGACY_LOCAL[1]) \o Items(st, LEGACY_LOCAL[2])

SyncDone == last.op = "sync" /\ ~last.threw
ImportDone == last.op = "import" /\ ~last.threw
\* the namespace the last call worked on
LastKey == StorageKey(last.who)

\* C1: after syncLocalToCloud(u) succeeds, having run while u is the current
\* identity, the cloud namespace of u holds every record id that the
\* anonymous namespace or the cloud namespace of u held before the call.
C1_SyncKeepsUnion ==
  (SyncDone /\ last.who = last.arg) =>
     (IdsOf(Items(last.pre, CURRENT_LOCAL))
        \cup IdsOf(Items(last.pre, CloudKey(last.arg))))
       \subseteq IdsOf(Items(store, CloudKey(last.arg)))

\* C2: on sync(u), for every id held both by the anonymous namespace and by
\* the cloud namespace of u, the record the cloud namespace holds afterwards
\* is the record the cloud namespace already held (cloud wins).
C2_CloudWins ==
  SyncDone =>
    \A i \in IdsOf(Items(last.pre, CURRENT_LOCAL))
               \cap IdsOf(Items(last.pre, CloudKey(last.arg))) :
       /\ WithId(Items(store, CloudKey(last.arg)), i) # {}
       /\ WithId(Items(store, CloudKey(last.arg)), i)
            \subseteq WithId(Items(last.pre, CloudKey(last.arg)), i)

\* a sync that read the anonymous namespace, where an id collided with
\* different content, has succeeded
C2_Witness ==
  /\ SyncDone /\ last.who = undefined
  /\ \E i \in IdsOf(Items(last.pre, CURRENT_LOCAL)) :
       /\ WithId(Items(last.pre, CloudKey(last.arg)), i) # {}
       /\ \A l \in WithId(Items(last.pre, CURRENT_LOCAL), i),
             c \in WithId(Items(last.pre, CloudKey(last.arg)), i) :
            l.content # c.content

CloudWriteFailed == last.op = "sync" /\ last.stage = "write"

C4_SyncEmptiesLocal ==
  SyncDone => store[CURRENT_LOCAL].kind = "absent"

\* a sync has succeeded from a populated anonymous namespace
C4_Witness ==
  SyncDone /\ Items(last.pre, CURRENT_LOCAL) # <<>>

\* C5: importHistoryData on a payload that parses but holds no record array
\* ("{}") fails with the format error.
C5_NoArrayIsFormatError ==
  (last.op = "import" /\ last.payload.kind = "object") => last.threw

\* C6: whenever importHistoryData throws, every storage key holds exactly
\* what it held before the call.
C6_ImportFailsAtomically ==
  (last.op = "import" /\ last.threw) => store = last.pre

IdsInBoth == IdsOf(Items(last.pre, LastKey)) \cap IdsOf(last.payload.items)

LastWithId(sq, i) ==
  sq[CHOOSE k \in 1..Len(sq) :
       /\ sq[k].id = i
       /\ \A j \in (k + 1)..Len(sq) : sq[j].id # i]

ImportKeepsIds ==
  (IdsOf(Items(last.pre, LastKey)) \cup IdsOf(last.payload.items))
    \subseteq IdsOf(Items(store, LastKey))

\* C8 as stated: after a successful import the current namespace holds every
\* id it held before and every id of the backup, and no other storage key
\* has changed.
C8_ImportWritesOnlyCurrent ==
  ImportDone =>
    /\ ImportKeepsIds
    /\ \A k \in Keys \ {LastKey} : store[k] = last.pre[k]

LegacyKeys == {LEGACY_LOCAL[i] : i \in 1..Len(LEGACY_LOCAL)}

\* C8 amended: after a successful import the current namespace holds every
\* id it held before and every id of the backup; the anonymous and cloud
\* namespaces other than the current one are unchanged; a legacy namespace
\* changes only by being removed, and only when the import ran with no
\* identity on an anonymous namespace that held no records, in which case
\* the current namespace holds the ids of the removed legacy records.
C8_ImportClearsOnlyMigratedLegacy ==
  ImportDone =>
    /\ ImportKeepsIds
    /\ \A k \in (Keys \ LegacyKeys) \ {LastKey} : store[k] = last.pre[k]
    /\ \A k \in LegacyKeys :
         store[k] # last.pre[k] =>
           /\ store[k] = Absent
           /\ last.who = undefined
           /\ Items(last.pre, CURRENT_LOCAL) = <<>>
           /\ IdsOf(Items(last.pre, k)) \subseteq IdsOf(Items(store, LastKey))

\* an import of a backup that carries ids has succeeded on a populated namespace
C8_Witness ==
  /\ ImportDone
  /\ IdsOf(Items(last.pre, LastKey)) # {}
  /\ IdsOf(last.payload.items) \ IdsOf(Items(last.pre, LastKey)) # {}

\* C9 as stated: a merge of X with itself, by the merge of sync or of import,
\* yields the id-set of X and only records with the field values they have
\* in X.
C9_MergeIdempotent ==
  merge.op # "none" =>
    /\ IdsOf(merge.res) = IdsOf(merge.X)
    /\ Range(merge.res) \subseteq Range(merge.X)

\* C9 amended: a merge of X with itself yields the id-set of X; with the
\* merge of sync every record of the result is a record of X, field by field;
\* with the merge of import every record of the result is a record of X with
\* its userId replaced by the current identity.
C9_MergeIdempotentUpToOwner ==
  /\ merge.op # "none" => IdsOf(merge.res) = IdsOf(merge.X)
  /\ merge.op = "sync" => Range(merge.res) \subseteq Range(merge.X)
  /\ merge.op = "import" =>
       Range(merge.res) \subseteq {Stamp(x, merge.u) : x \in Range(merge.X)}

\* the merge of import has been applied to a collection holding a record
\* that another identity owns
C9_Witness ==
  /\ merge.op = "import"
  /\ \E r \in Range(merge.res) : r \notin Range(merge.X)

\* C10: saves keep the record ids of a namespace pairwise distinct: a save
\* into a namespace whose ids are pairwise distinct leaves them so.
C10_SavedIdsDistinct ==
  (last.op = "save" /\ ~last.threw /\ Distinct(Items(last.pre, LastKey)))
    => Distinct(Items(store, LastKey))

Identities == Users \cup {undefined}
\* timestamps never increase along sq
Sorted(sq) == \A k \in 1..(Len(sq) - 1) : sq[k].timestamp >= sq[k + 1].timestamp
\* what getHistory() returns for identity u when the store accepts writes
List(st, u) == GetHistory(st, u, 0, 0).ret
\* what getHistory() returned, or would have, right before the last call
ListBefore == List(last.pre, last.who)
ListAfter == List(store, last.who)

\* C11: in every reachable state and for every identity, the list getHistory
\* returns is ordered by timestamp descending, a missing timestamp counting
\* as 0; so is every list the app has been handed by getHistory.
C11_ListSorted ==
  /\ \A u \in Identities : Sorted(List(store, u))
  /\ (last.op = "getHistory" /\ ~last.threw) => Sorted(last.ret)

\* a capture has stored its record in front of a newer one, and the handler
\* has listed that namespace
C11_Witness ==
  /\ last.op = "save" /\ ~last.threw
  /\ ~Sorted(Items(store, LastKey))

DeleteDone == last.op = "delete" /\ ~last.threw

\* C12: a delete that returns leaves in the current namespace no record with
\* the id given and every other record getHistory listed, each unchanged and
\* as often as before, and nothing else; when no record carries the id, the
\* list it returns has the ids listed before the call; and a delete fails
\* only when the store rejects a write, never because the id is missing.
C12_DeleteRemovesExactly ==
  /\ DeleteDone =>
       /\ WithId(Items(store, LastKey), last.arg) = {}
       /\ Items(store, LastKey) = FilterOut(ListBefore, last.arg)
       /\ \A r \in Range(Items(last.pre, LastKey)) :
            r.id # last.arg => r \in Range(Items(store, LastKey))
       /\ WithId(ListBefore, last.arg) = {} =>
            /\ IdsOf(last.ret) = IdsOf(ListBefore)
            /\ Len(last.ret) = Len(ListBefore)
  /\ (last.op = "delete" /\ last.threw) => last.stage \in {"migrate", "write"}

\* a delete has removed a record from a namespace and left another one there
C12_Witness ==
  /\ DeleteDone
  /\ WithId(Items(last.pre, LastKey), last.arg) # {}
  /\ Items(store, LastKey) # <<>>

SaveDone == last.op = "save" /\ ~last.threw

\* C13 as stated: a save returns a record with an id, and getHistory then
\* lists that record plus exactly the records the namespace held before the
\* save; from an empty anonymous namespace it lists that one record.
C13_SaveAddsToNamespace ==
  SaveDone =>
    /\ last.ret[1].id # undefined
    /\ ListAfter = SortDesc(last.ret \o Items(last.pre, LastKey))
    /\ (last.who = undefined /\ Items(last.pre, CURRENT_LOCAL) = <<>>)
         => ListAfter = last.ret

\* C13 amended: a save returns a record with an id, and getHistory then lists
\* that record plus exactly the records getHistory listed before the save,
\* which for an empty anonymous namespace are the records of the legacy
\* namespaces; when it listed none before, it lists that one record.
C13_SaveAddsToList ==
  SaveDone =>
    /\ last.ret[1].id # undefined
    /\ ListAfter = SortDesc(last.ret \o ListBefore)
    /\ ListBefore = <<>> => ListAfter = last.ret

\* a save into an empty anonymous namespace has taken in legacy records
C13_Witness ==
  /\ SaveDone /\ last.who = undefined
  /\ Items(last.pre, CURRENT_LOCAL) = <<>>
  /\ ListBefore # <<>>

\* C14: getHistory never throws.
C14_GetHistoryNeverThrows ==
  last.op = "getHistory" => ~last.threw

\* C15: a save whose write the store rejects does not return the record as
\* saved: whenever a save returns a record, the namespace holds that record.
C15_SaveNeverLosesSilently ==
  last.op = "save" =>
    \/ last.threw
    \/ /\ last.ret # <<>>
       /\ last.ret[1] \in Range(Items(store, LastKey))

\* the store has rejected the write of a save, and the save has thrown
C15_Witness ==
  /\ last.op = "save" /\ last.stage = "write"
  /\ store[LastKey] = last.pre[LastKey]

\* C16: given the same primary collection, secondary collection and identity,
\* the merge of syncLocalToCloud and the merge of importHistoryData yield the
\* same collection.
C16_SameMerge ==
  (merge.synced /\ merge.imported) => merge.bySync = merge.byImport

\* the namespaces a sync for userId reads and writes
SyncKeys(userId) == {CURRENT_LOCAL, CloudKey(userId)}

\* C17: while a syncLocalToCloud(u) is outstanding, no save, delete or import
\* changes the anonymous namespace or the cloud namespace of u.
C17_MutationsSerialized ==
  [][(/\ pending # <<>>
      /\ ops' = ops + 1
      /\ last'.op \in {"save", "delete", "import"})
       => \A k \in 1..Len(pending) :
            \A key \in SyncKeys(pending[k].userId) : store'[key] = store[key]]_vars

\* every record id stored in the anonymous or in a cloud namespace
NamespaceIds(st) ==
  UNION {IdsOf(Items(st, k)) : k \in {CURRENT_LOCAL} \cup {CloudKey(u) : u \in Users}}

\* the syncs that were outstanding when the last call was made, provided no
\* call has been made since: a login after a call with no identity has
\* added the newest one
PendingAtLast ==
  IF last.who = undefined /\ user # undefined
  THEN SubSeq(pending, 1, Len(pending) - 1)
  ELSE pending

\* C18: when a sync that was outstanding while a record was saved completes,
\* the id of the saved record is stored in the anonymous namespace or in a
\* cloud namespace.
C18_SavedRecordSurvivesSync ==
  [][(/\ pending # <<>> /\ pending' = Tail(pending)
      /\ last.op = "save" /\ ~last.threw
      /\ PendingAtLast # <<>>)
       => last.ret[1].id \in NamespaceIds(store')]_vars

\* C19: every record stored in the cloud namespace of an identity u carries
\* userId = u.
C19_CloudRecordsOwned ==
  \A u \in Users : \A r \in Range(Items(store, CloudKey(u))) : r.userId = u

\* a sync has moved a record that carried no owner from the anonymous
\* namespace into a cloud namespace
C19_Witness ==
  /\ SyncDone
  /\ \E r \in Range(Items(last.pre, CURRENT_LOCAL)) :
       /\ r.userId # last.arg
       /\ r.id \in IdsOf(Items(store, CloudKey(last.arg)))
                     \ IdsOf(Items(last.pre, CloudKey(last.arg)))

\* C20: within each namespace the record ids are pairwise distinct.
C20_IdsDistinct ==
  \A k \in Keys : Distinct(Items(store, k))

\* C20 for the legacy migration alone: a getHistory that finds the ids of
\* every namespace pairwise distinct leaves them so.
C20_MigrationKeepsIdsDistinct ==
  (/\ last.op = "getHistory" /\ ~last.threw
   /\ \A k \in Keys : Distinct(Items(last.pre, k)))
    => \A k \in Keys : Distinct(Items(store, k))

\* the anonymous namespace and the cloud namespaces
Namespaces == {CURRENT_LOCAL} \cup {CloudKey(u) : u \in Users}
\* the last call found namespace k holding records and left it holding none
Emptied(k) == Items(last.pre, k) # <<>> /\ Items(store, k) = <<>>

\* C21 as stated: a namespace that holds records comes to hold none only if
\* it is the anonymous namespace and the call was a sync.
C21_OnlySyncEmpties ==
  \A k \in Namespaces :
    Emptied(k) => (last.op = "sync" /\ k = CURRENT_LOCAL)

\* C21 amended: a namespace that holds records comes to hold none only
\* through a sync, which empties the anonymous namespace, or through a delete
\* of the last records of the namespace it works on; save, import and
\* getHistory never empty a namespace, and a sync never empties a cloud
\* namespace.
C21_OnlySyncOrDeleteEmpties ==
  \A k \in Namespaces :
    Emptied(k) => \/ (last.op = "sync" /\ k = CURRENT_LOCAL)
                  \/ (last.op = "delete" /\ k = LastKey)

\* a delete has removed the last record of a cloud namespace
C21_Witness ==
  /\ DeleteDone /\ last.who # undefined
  /\ Emptied(LastKey)

\* no sync is inside its wait and no continuation is due
AtRest == mounted /\ pending = <<>> /\ cont = "none"

\* no record id is held by two of the anonymous and cloud namespaces of st
OneNamespacePerId(st) ==
  \A j, k \in Namespaces :
    j # k => IdsOf(Items(st, j)) \cap IdsOf(Items(st, k)) = {}

\* C22: at rest, the id-sets of the anonymous namespace and of the cloud
\* namespaces are pairwise disjoint: a completed operation that found them
\* pairwise disjoint leaves them so.
C22_IdsInOneNamespace ==
  (AtRest /\ OneNamespacePerId(last.pre)) => OneNamespacePerId(store)

\* getHistory has run with no identity on an anonymous namespace that held
\* no records
MigrationCase ==
  /\ last.op = "getHistory" /\ last.who = undefined
  /\ Items(last.pre, CURRENT_LOCAL) = <<>>

\* C23: after getHistory has run with no identity on an anonymous namespace
\* holding no records, the anonymous namespace holds the records of the legacy
\* namespaces, concatenated in the order of LEGACY_LOCAL, and no legacy
\* namespace that held records exists any more.
C23_MigrationMovesLegacy ==
  MigrationCase =>
    /\ Items(store, CURRENT_LOCAL) = LegacyItems(last.pre)
    /\ \A k \in LegacyKeys : Items(last.pre, k) # <<>> => store[k] = Absent

\* C24: a call made under an identity, and a call made while the anonymous
\* namespace holds at least one record, leaves every legacy namespace as it was.
C24_MigrationOnlyWhenAnonymousEmpty ==
  (last.op # "none"
     /\ (last.who # undefined \/ Items(last.pre, CURRENT_LOCAL) # <<>>))
    => \A k \in LegacyKeys : store[k] = last.pre[k]

\* a call has been made under an identity while the anonymous namespace held
\* no records and a legacy namespace held some
C24_Witness ==
  /\ last.op \in {"save", "delete", "import", "sync", "getHistory"}
  /\ last.who # undefined
  /\ Items(last.pre, CURRENT_LOCAL) = <<>>
  /\ LegacyItems(last.pre) # <<>>

\* C25: whenever getHistory removes a legacy namespace, every record that
\* namespace held is stored in the anonymous namespace afterwards.
C25_MigrationLosesNothing ==
  last.op = "getHistory" =>
    \A k \in LegacyKeys :
      store[k] # last.pre[k] =>
        Range(Items(last.pre, k)) \subseteq Range(Items(store, CURRENT_LOCAL))

\* C26: a save, delete, getHistory or import made under identity u changes no
\* key but the cloud namespace of u; made with no identity it changes no key
\* but the anonymous namespace and the legacy namespaces; and a sync for u
\* changes the cloud namespace of no other identity.
C26_NamespaceIsolation ==
  /\ last.op \in {"save", "delete", "getHistory", "import"} =>
       \A k \in Keys :
         store[k] # last.pre[k] =>
           \/ k = LastKey
           \/ (last.who = undefined /\ k \in LegacyKeys)
  /\ last.op = "sync" =>
       \A u \in Users \ {last.arg} :
         store[CloudKey(u)] = last.pre[CloudKey(u)]

\* a save under an identity has changed that identity's cloud namespace while
\* the anonymous namespace held records
C26_Witness ==
  /\ SaveDone /\ last.who # undefined
  /\ store[LastKey] # last.pre[LastKey]
  /\ Items(last.pre, CURRENT_LOCAL) # <<>>

\* the last call was one of the operations that do not create records
NotASave == last.op \in {"sync", "import", "delete", "getHistory"}
\* the id and the timestamp of r are those of a record in the set S
SameIdAndTime(r, S) == \E q \in S : q.id = r.id /\ q.timestamp = r.timestamp
\* record r of namespace k has the timestamp its id had in k before the call
KeepsTime(r, k) == SameIdAndTime(r, WithId(Items(last.pre, k), r.id))

AfterRoundTrip(st, u) ==
  LET e == ExportHistoryData(st, u, 0) IN
  ImportHistoryData(e.store, u, e.payload, 0)

\* C28: in every state the app can be in, exporting and then importing the
\* exported string under the current identity succeeds and leaves the list of
\* that identity's namespace as it was: the same records in the same order.
C28_RoundTripKeepsList ==
  mounted =>
    /\ ~AfterRoundTrip(store, user).threw
    /\ List(AfterRoundTrip(store, user).store, user) = List(store, user)

\* C29: every syncLocalToCloud call settles: whenever syncs are outstanding,
\* eventually none is, whether their reads and writes throw or not.
C29_SyncSettles == (pending # <<>>) ~> (pending = <<>>)

\* the write of a sync has thrown after the wait and the call has settled
C29_Witness ==
  /\ last.op = "sync" /\ last.stage = "write"
  /\ pending = <<>>

\* the failures the statement calls retryable: status or code 429 or 503
RetryableByStatusOrCode(e) == e.status \in {429, 503} \/ e.code \in {429, 503}
\* status 429 or 503, code 429, or a message that contains '429'
RetryableAsRead(e) == e.status \in {429, 503} \/ e.code = 429 \/ e.has429

\* the policy of a retryWithBackoff call, for the failures R counts as
\* retryable: at most given + 1 invocations; every invocation but the last
\* failed retryably and was followed by a wait, the waits doubling from the
\* first delay; a result is returned as soon as there is one; a failure is
\* rethrown when it is not retryable or when no retry is left
RetryPolicy(R(_)) ==
  LET n == Len(merge.log) IN
  /\ n <= merge.given + 1
  /\ merge.retries = merge.given - Len(merge.waits)
                       + (IF merge.at = "wait" THEN 1 ELSE 0)
  /\ Len(merge.waits) = IF merge.at \in {"returned", "threw"} THEN n - 1 ELSE n
  /\ \A k \in 1..Len(merge.waits) :
       /\ merge.log[k].kind = "error" /\ R(merge.log[k])
       /\ merge.waits[k] = merge.first * 2^(k - 1)
  /\ merge.at = "returned" =>
       merge.log[n].kind = "ok" /\ merge.out = merge.log[n]
  /\ merge.at = "threw" =>
       /\ merge.log[n].kind = "error" /\ merge.out = merge.log[n]
       /\ ~R(merge.log[n]) \/ n = merge.given + 1

====
